---- MODULE Spec2Model ----
(***************************************************************************)
(* Model of the chat backend: the session registry (SessionManager), the   *)
(* turn drivers of AgentManager (stream_response, respond_to_prompt,       *)
(* _process_response) and the translation of StreamEvents into the typed   *)
(* wire frames of the UI message stream (convert_to_vercel_events and its  *)
(* two drivers, stream_agent_response_vercel and respond.generate).        *)
(***************************************************************************)
EXTENDS Integers, Sequences, FiniteSets, TLC

VARIABLES
    sess,        \* ManagedSession objects, by session id (NoSession: never created)
    registered,  \* keys of SessionManager._sessions
    conns,       \* ClaudeSDKClient instances, in order of construction
    req,         \* per request: the endpoint's and the generators' locals
    st,          \* per request: its VercelStreamState
    frames       \* per request: the wire frames yielded so far

vars == <<sess, registered, conns, req, st, frames>>

\* ------------------------------------------------------------------ bounds

MaxMsgs == 2
MaxConns == 2
MaxEvents == 4

\* ------------------------------------------------------------------ values

None == "None"
Reqs == {"r1"}
\* the ids uuid4 hands to create_session, in the order it hands them out, and
\* an id it never hands out (a client's stale or invented id); sess is defined
\* on the ids a behaviour can use: SessionIds with one request at a time,
\* ConcurrentIds with the requests of Callers in flight together
SessionOrder == <<"s1", "s2">>
SessionIds == {SessionOrder[1]}
ConcurrentIds == {SessionOrder[1], SessionOrder[2]}
Callers == {"r1", "r2"}
UnknownId == "s0"
ToolIds == {"t1", "t2"}
ToolNames == {"AskUserQuestion", "Bash"}
Texts == {"", "a"}
Tokens == {"tokA"}
Costs == {"c1"}
ErrMsgs == {"", "boom"}
NoSession == [state |-> None, sdk_session_id |-> None, client |-> 0, idle |-> 0]

\* SessionState
ACTIVE == "active"
STREAMING == "streaming"
WAITING_INPUT == "waiting_input"
COMPLETED == "completed"
ERROR == "error"
SessionState == {ACTIVE, STREAMING, WAITING_INPUT, COMPLETED, ERROR}

\* SessionManager.__init__(ttl_seconds), in ticks of the clock
TtlSeconds == 1

\* ------------------------------------------------------------------ StreamEvent

StreamEvent(type) ==
    [type |-> type, text |-> None, tool_name |-> None, tool_id |-> None,
     tool_input |-> None, tool_result |-> None, session_id |-> None,
     cost |-> None, is_error |-> FALSE, questions |-> None]

\* ------------------------------------------------------------------ translator

\* VercelStreamState.__init__; nids counts the ids drawn so far, each draw of
\* uuid4 being a fresh one
VercelStreamState == [text_id |-> 0, text_started |-> FALSE, session_id |-> None, nids |-> 0]

\* every block is given the same id
generate_text_id_Reuses(s) == [s EXCEPT !.text_id = 1, !.nids = s.nids + 1]

\* VercelStreamState.generate_text_id: `text-` and eight hex digits of a fresh uuid4
generate_text_id(s) == [s EXCEPT !.text_id = s.nids + 1, !.nids = s.nids + 1]

\* `x or default` on an optional string
OrElse(x, default) == IF x = None \/ x = "" THEN default ELSE x

\* the text-end is appended but text_started is left set
EndTextBlock_KeepsStarted(s) ==
    IF s.text_started /\ s.text_id # 0
    THEN [out |-> <<[type |-> "text-end", id |-> s.text_id]>>, st |-> s]
    ELSE [out |-> <<>>, st |-> s]

\* the block `if state.text_started and state.text_id: append text-end`
EndTextBlock(s) ==
    IF s.text_started /\ s.text_id # 0
    THEN [out |-> <<[type |-> "text-end", id |-> s.text_id]>>,
          st |-> [s EXCEPT !.text_started = FALSE]]
    ELSE [out |-> <<>>, st |-> s]

\* the delta is emitted whatever the text is
ConvertText_AlwaysDelta(event, s) ==
    LET s1 == IF ~s.text_started
              THEN [generate_text_id(s) EXCEPT !.text_started = TRUE]
              ELSE s
        start == IF ~s.text_started
                 THEN <<[type |-> "text-start", id |-> s1.text_id]>>
                 ELSE <<>>
    IN  [out |-> start \o <<[type |-> "text-delta", id |-> s1.text_id,
                              delta |-> event.text]>>,
         st |-> s1]

\* convert_to_vercel_events, `if event.type == "text":`
ConvertText(event, s) ==
    LET s1 == IF ~s.text_started
              THEN [generate_text_id(s) EXCEPT !.text_started = TRUE]
              ELSE s
        start == IF ~s.text_started
                 THEN <<[type |-> "text-start", id |-> s1.text_id]>>
                 ELSE <<>>
        delta == IF event.text # None /\ event.text # "" /\ s1.text_id # 0
                 THEN <<[type |-> "text-delta", id |-> s1.text_id, delta |-> event.text]>>
                 ELSE <<>>
    IN  [out |-> start \o delta, st |-> s1]

ConvertToolStart(event, s) ==
    LET e == EndTextBlock(s)
    IN  [out |-> e.out \o
                 <<[type |-> "tool-input-start", toolCallId |-> event.tool_id,
                    toolName |-> event.tool_name],
                   [type |-> "tool-input-available", toolCallId |-> event.tool_id,
                    toolName |-> event.tool_name,
                    input |-> OrElse(event.tool_input, "{}")]>>,
         st |-> e.st]

ConvertUserInputRequired(event, s) ==
    LET e == EndTextBlock(s)
    IN  [out |-> e.out \o
                 <<[type |-> "tool-input-start", toolCallId |-> event.tool_id,
                    toolName |-> "AskUserQuestion"],
                   [type |-> "tool-input-available", toolCallId |-> event.tool_id,
                    toolName |-> "AskUserQuestion",
                    input |-> <<OrElse(event.questions, "[]"),
                                OrElse(event.tool_input, "{}")>>]>>,
         st |-> e.st]

ConvertToolResult(event, s) ==
    [out |-> <<[type |-> "tool-output-available", toolCallId |-> event.tool_id,
                result |-> event.tool_result, isError |-> event.is_error]>>,
     st |-> s]

ConvertDone(event, s) ==
    LET e == EndTextBlock(s)
    IN  [out |-> e.out \o
                 <<[type |-> "finish", session_id |-> event.session_id,
                    cost |-> event.cost]>>,
         st |-> e.st]

ConvertError(event, s) ==
    LET e == EndTextBlock(s)
    IN  [out |-> e.out \o
                 <<[type |-> "error", errorText |-> OrElse(event.text, "Unknown error")]>>,
         st |-> e.st]

\* convert_to_vercel_events(event, state): the frames and the state it leaves
convert_to_vercel_events(event, s0) ==
    LET s == IF event.session_id # None /\ event.session_id # ""
             THEN [s0 EXCEPT !.session_id = event.session_id]
             ELSE s0
    IN  CASE event.type = "text" -> ConvertText(event, s)
          [] event.type = "tool_start" -> ConvertToolStart(event, s)
          [] event.type = "user_input_required" -> ConvertUserInputRequired(event, s)
          [] event.type = "tool_result" -> ConvertToolResult(event, s)
          [] event.type = "done" -> ConvertDone(event, s)
          [] event.type = "error" -> ConvertError(event, s)
          [] OTHER -> [out |-> <<>>, st |-> s]

\* the literal `data: [DONE]` sentinel
DoneSentinel == [type |-> "[DONE]"]

\* ------------------------------------------------------------------ registry

Exists(s) == sess[s].state # None
Created == {s \in DOMAIN sess : Exists(s)}

\* the id is derived from the number of records the registry holds
uuid4_FromRegistrySize == SessionOrder[Cardinality(registered) + 1]

\* `session_id = str(uuid.uuid4())`: an id no record was ever given
uuid4 == SessionOrder[Cardinality(Created) + 1]

\* A record keeps idle = now - last_accessed, the only use the code makes of
\* last_accessed; it stops counting one tick past the TTL.
\* a record idle for exactly the TTL counts as expired
is_expired_AtTtl(s) == sess[s].idle >= TtlSeconds

\* ManagedSession.is_expired(ttl_seconds)
is_expired(s) == sess[s].idle > TtlSeconds

\* last_accessed is set to a moment in the past
touch_Backdated(rec) == [rec EXCEPT !.idle = TtlSeconds + 1]

\* ManagedSession.touch()
touch(rec) == [rec EXCEPT !.idle = 0]

\* a ClaudeSDKClient as constructed: whether client.query() was called on it,
\* and the callers whose disconnect() on it returned, in order
NewClient(status, resume) ==
    [status |-> status, resume |-> resume, used |-> FALSE, closed_by |-> <<>>]

\* ClaudeSDKClient.disconnect() on connection c, called by who; a failed
\* disconnect (ok = FALSE) leaves the connection as it was
Disconnected(cs, c, ok, who) ==
    IF ok /\ c \in 1..Len(cs)
    THEN [cs EXCEPT ![c].status = "closed", ![c].closed_by = Append(@, who)]
    ELSE cs

\* SessionManager._cleanup_session on each session of S, the disconnects of
\* the sessions in failing raising (logged, not propagated)
\* the first disconnect that raises ends the loop
RECURSIVE CleanupSessions_StopsAtFailure(_, _, _, _)
CleanupSessions_StopsAtFailure(cs, S, failing, who) ==
    IF S = {} THEN cs
    ELSE LET s == CHOOSE x \in S : TRUE
         IN  IF s \in failing THEN cs
             ELSE CleanupSessions_StopsAtFailure(
                      Disconnected(cs, sess[s].client, TRUE, who), S \ {s}, failing, who)

RECURSIVE CleanupSessions(_, _, _, _)
CleanupSessions(cs, S, failing, who) ==
    IF S = {} THEN cs
    ELSE LET s == CHOOSE x \in S : TRUE
         IN  CleanupSessions(Disconnected(cs, sess[s].client, s \notin failing, who),
                             S \ {s}, failing, who)

\* A ManagedSession that is in no registry and is the local of no running
\* generator is unreachable: its id stays used, its fields are gone
Collected == [state |-> "collected", sdk_session_id |-> None, client |-> 0, idle |-> 0]
Running(rq, r) == rq[r].pc \notin {"idle", "done"}
Collect(ss, reg, rq) ==
    [s \in DOMAIN ss |->
       IF /\ ss[s].state # None
          /\ s \notin reg
          /\ ~\E r \in DOMAIN rq : Running(rq, r) /\ rq[r].session = s
       THEN Collected ELSE ss[s]]

\* the state is set and last_accessed is left as it was
WithState_NoTouch(ss, s, state) == [ss EXCEPT ![s].state = state]

\* SessionManager.set_session_state on a registered session
WithState(ss, s, state) == [ss EXCEPT ![s] = touch([@ EXCEPT !.state = state])]

\* ------------------------------------------------------------------ requests

NewRequest ==
    [pc |-> "idle", kind |-> None, sid |-> None, session |-> None, ask |-> {},
     outcome |-> None,
     \* what the run of the request has seen, kept for the properties
     log |-> <<>>,        \* the deliveries of receive_response(), in order
     lookup |-> None,     \* get_session: "found" or "absent"
     obs |-> None,        \* the state of the session get_session returned
     queried |-> FALSE,   \* client.query() was issued and returned
     fault |-> FALSE,     \* a call on the upstream connection raised
     \* a direct call of a SessionManager method: the count it returned and the
     \* sessions whose disconnect() raised inside it
     arg |-> None,
     count |-> 0,
     failing |-> {},
     \* the reaper inside cleanup_expired: the expired ids not yet popped
     expired_ids |-> {},
     \* the await at which the generator was cancelled, if it was
     cancelled_at |-> None]

SessionNotFoundText == "Session not found"
RespondNotFoundText == "Session not found or expired"

ErrorEvent(text, sid) ==
    [StreamEvent("error") EXCEPT !.text = text, !.is_error = TRUE, !.session_id = sid]

\* the frames of the event are put in front of those already streamed
Yield_Prepends(r, events, end) ==
    LET c == IF events = <<>> THEN [out |-> <<>>, st |-> st[r]]
             ELSE convert_to_vercel_events(events[1], st[r])
    IN  /\ st' = [st EXCEPT ![r] = c.st]
        /\ frames' = [frames EXCEPT ![r] =
                        c.out \o @ \o (IF end THEN <<DoneSentinel>> ELSE <<>>)]

\* the frames of one event appended to the request's stream (the body of the
\* `async for` of stream_agent_response_vercel / respond.generate)
Yield(r, events, end) ==
    LET c == IF events = <<>> THEN [out |-> <<>>, st |-> st[r]]
             ELSE convert_to_vercel_events(events[1], st[r])
    IN  /\ st' = [st EXCEPT ![r] = c.st]
        /\ frames' = [frames EXCEPT ![r] =
                        @ \o c.out \o (IF end THEN <<DoneSentinel>> ELSE <<>>)]

\* the error frames are yielded and the generator returns without the sentinel
WrapperCatch_NoSentinel(r, text, notFound) ==
    Yield(r, <<ErrorEvent(text, None)>>, FALSE)

\* An exception leaves the manager's generator: the `except` clauses of
\* stream_agent_response_vercel and of respond.generate
WrapperCatch(r, text, notFound) ==
    Yield(r, <<ErrorEvent(IF req[r].kind = "respond" /\ notFound
                          THEN RespondNotFoundText ELSE text, None)>>, TRUE)

\* the handler yields its error event and lets the exception go on to the caller
ManagerCatch_Reraises(r, ss, text) ==
    LET s == req[r].session
        c1 == convert_to_vercel_events(ErrorEvent(text, s), st[r])
        c2 == convert_to_vercel_events(ErrorEvent(text, None), c1.st)
    IN  /\ sess' = IF s \in registered THEN WithState(ss, s, ERROR) ELSE ss
        /\ st' = [st EXCEPT ![r] = c2.st]
        /\ frames' = [frames EXCEPT ![r] = @ \o c1.out \o c2.out \o <<DoneSentinel>>]

\* the handler yields its error event and leaves the session's state alone
ManagerCatch_KeepsState(r, ss, text) ==
    LET s == req[r].session
    IN  IF s \in registered
        THEN /\ sess' = ss
             /\ Yield(r, <<ErrorEvent(text, s)>>, TRUE)
        ELSE /\ sess' = ss
             /\ WrapperCatch(r, SessionNotFoundText, TRUE)

\* `except Exception as e` of stream_response / respond_to_prompt, entered with
\* the session objects ss: set_session_state(ERROR), then the error event
ManagerCatch(r, ss, text) ==
    LET s == req[r].session
    IN  IF s \in registered
        THEN /\ sess' = WithState(ss, s, ERROR)
             /\ Yield(r, <<ErrorEvent(text, s)>>, TRUE)
        ELSE /\ sess' = ss
             /\ WrapperCatch(r, SessionNotFoundText, TRUE)

\* POST /api/chat
StartChat(r, sid, msgok) ==
    /\ req[r].pc \in {"idle", "done"}
    /\ req' = [req EXCEPT ![r] =
                 [NewRequest EXCEPT !.kind = "chat", !.sid = sid,
                                    !.pc = IF msgok THEN "sr_get" ELSE "done",
                                    !.outcome = IF msgok THEN "stream" ELSE "http400"]]
    /\ st' = [st EXCEPT ![r] = VercelStreamState]
    /\ frames' = [frames EXCEPT ![r] = <<>>]
    /\ sess' = Collect(sess, registered, req')
    /\ UNCHANGED <<registered, conns>>

\* POST /api/chat/respond
StartRespond(r, sid) ==
    /\ req[r].pc \in {"idle", "done"}
    /\ req' = [req EXCEPT ![r] =
                 [NewRequest EXCEPT !.kind = "respond", !.sid = sid,
                                    !.pc = IF sid # "" THEN "rp_get" ELSE "done",
                                    !.outcome = IF sid # "" THEN "stream" ELSE "http400"]]
    /\ st' = [st EXCEPT ![r] = VercelStreamState]
    /\ frames' = [frames EXCEPT ![r] = <<>>]
    /\ sess' = Collect(sess, registered, req')
    /\ UNCHANGED <<registered, conns>>

\* SessionManager.get_session(sid), its eviction disconnect succeeding or not
get_session(sid, ok, found, absent) ==
    IF sid \notin registered
    THEN /\ absent
         /\ UNCHANGED <<sess, registered, conns>>
    ELSE IF is_expired(sid)
    THEN /\ absent
         /\ conns' = Disconnected(conns, sess[sid].client, ok, "get_session")
         /\ registered' = registered \ {sid}
         /\ sess' = Collect(sess, registered', req)
    ELSE /\ found
         /\ sess' = [sess EXCEPT ![sid] = touch(@)]
         /\ UNCHANGED <<registered, conns>>

\* stream_response: `if session_id: session = await get_session(session_id)`
SrGet(r, ok) ==
    /\ req[r].pc = "sr_get"
    /\ IF req[r].sid = None
       THEN /\ req' = [req EXCEPT ![r].pc = "sr_create"]
            /\ UNCHANGED <<sess, registered, conns>>
       ELSE get_session(req[r].sid, ok,
                req' = [req EXCEPT ![r].session = req[r].sid,
                                   ![r].lookup = "found",
                                   ![r].obs = sess[req[r].sid].state,
                                   ![r].pc = IF sess[req[r].sid].sdk_session_id # "default"
                                             THEN "sr_disconnect" ELSE "set_streaming"],
                req' = [req EXCEPT ![r].pc = "sr_create", ![r].lookup = "absent"])
    /\ UNCHANGED <<st, frames>>

\* SessionManager.create_session once connect() has returned: the record is
\* built around the connected client and inserted under the id drawn
create_session(sid) ==
    /\ conns' = Append(conns, NewClient("open", None))
    /\ sess' = [sess EXCEPT ![sid] =
                  [state |-> ACTIVE, sdk_session_id |-> "default",
                   client |-> Len(conns) + 1, idle |-> 0]]
    /\ registered' = registered \cup {sid}

\* the record is inserted before connect() is awaited
SrCreate_InsertsFirst(r, ok, msg) ==
    /\ req[r].pc = "sr_create"
    /\ Len(conns) < MaxConns /\ Created # DOMAIN sess
    /\ LET sid == uuid4
       IN  /\ conns' = Append(conns, NewClient(IF ok THEN "open" ELSE "new", None))
           /\ sess' = [sess EXCEPT ![sid] =
                         [state |-> ACTIVE, sdk_session_id |-> "default",
                          client |-> Len(conns) + 1, idle |-> 0]]
           /\ registered' = registered \cup {sid}
           /\ IF ok
              THEN /\ req' = [req EXCEPT ![r].session = sid, ![r].pc = "set_streaming"]
                   /\ UNCHANGED <<st, frames>>
              ELSE /\ req' = [req EXCEPT ![r].pc = "done", ![r].fault = TRUE]
                   /\ WrapperCatch(r, msg, FALSE)

\* SessionManager.create_session from stream_response; connect() succeeds or raises
SrCreate(r, ok, msg) ==
    /\ req[r].pc = "sr_create"
    /\ ok => (Len(conns) < MaxConns /\ Created # DOMAIN sess)
    /\ LET sid == uuid4
       IN  IF ok
            THEN /\ create_session(sid)
                 /\ req' = [req EXCEPT ![r].session = sid, ![r].pc = "set_streaming"]
                 /\ UNCHANGED <<st, frames>>
            ELSE /\ req' = [req EXCEPT ![r].pc = "done", ![r].fault = TRUE]
                 /\ WrapperCatch(r, msg, FALSE)
                 /\ UNCHANGED <<sess, registered, conns>>

\* stream_response, reconnect: `await session.client.disconnect()`
SrDisconnect(r, ok, msg) ==
    /\ req[r].pc = "sr_disconnect"
    /\ IF ok
       THEN /\ conns' = Disconnected(conns, sess[req[r].session].client, TRUE, "reconnect")
            /\ req' = [req EXCEPT ![r].pc = "sr_connect"]
            /\ UNCHANGED <<st, frames>>
       ELSE /\ req' = [req EXCEPT ![r].pc = "done", ![r].fault = TRUE]
            /\ WrapperCatch(r, msg, FALSE)
            /\ UNCHANGED conns
    /\ UNCHANGED <<sess, registered>>

\* stream_response, reconnect: a new client with resume=sdk_session_id, connect()
SrConnect(r, ok, msg) ==
    /\ req[r].pc = "sr_connect"
    /\ Len(conns) < MaxConns
    /\ conns' = Append(conns, NewClient(IF ok THEN "open" ELSE "new",
                                         sess[req[r].session].sdk_session_id))
    /\ sess' = [sess EXCEPT ![req[r].session].client = Len(conns) + 1]
    /\ IF ok
       THEN /\ req' = [req EXCEPT ![r].pc = "set_streaming"]
            /\ UNCHANGED <<st, frames>>
       ELSE /\ req' = [req EXCEPT ![r].pc = "done", ![r].fault = TRUE]
            /\ WrapperCatch(r, msg, FALSE)
    /\ UNCHANGED registered

\* respond_to_prompt: `session = await get_session(session_id)`, absent raising
RpGet(r, ok) ==
    /\ req[r].pc = "rp_get"
    /\ get_session(req[r].sid, ok,
            /\ req' = [req EXCEPT ![r].session = req[r].sid,
                                  ![r].lookup = "found",
                                  ![r].obs = sess[req[r].sid].state,
                                  ![r].pc = "set_streaming"]
            /\ UNCHANGED <<st, frames>>,
            /\ req' = [req EXCEPT ![r].pc = "done", ![r].lookup = "absent"]
            /\ WrapperCatch(r, SessionNotFoundText, TRUE))

\* `await set_session_state(session.session_id, SessionState.STREAMING)`,
\* before the try block of either generator
SetStreaming(r) ==
    /\ req[r].pc = "set_streaming"
    /\ IF req[r].session \in registered
       THEN /\ sess' = WithState(sess, req[r].session, STREAMING)
            /\ req' = [req EXCEPT ![r].pc = "query"]
            /\ UNCHANGED <<st, frames>>
       ELSE /\ req' = [req EXCEPT ![r].pc = "done"]
            /\ WrapperCatch(r, SessionNotFoundText, TRUE)
            /\ UNCHANGED sess
    /\ UNCHANGED <<registered, conns>>

ConnOpen(r) == conns[sess[req[r].session].client].status = "open"

\* `await session.client.query(...)`: raises on a connection that is not open
Query(r, ok, msg) ==
    /\ req[r].pc = "query"
    /\ conns' = [conns EXCEPT ![sess[req[r].session].client].used = TRUE]
    /\ IF ok /\ ConnOpen(r)
       THEN /\ req' = [req EXCEPT ![r].pc = "recv", ![r].queried = TRUE]
            /\ UNCHANGED <<sess, st, frames>>
       ELSE /\ req' = [req EXCEPT ![r].pc = "done", ![r].fault = TRUE]
            /\ ManagerCatch(r, sess, msg)
    /\ UNCHANGED registered

\* ------------------------------------------------------------------ upstream

\* what receive_response() can deliver: one content block of an
\* AssistantMessage or a UserMessage, a ResultMessage, or a message of a type
\* _process_response has no branch for
TextBlocks == [kind : {"text"}, text : Texts]
ToolUseBlocks == [kind : {"tool_use"}, name : ToolNames, id : ToolIds]
ToolResultBlocks == [kind : {"tool_result"}, role : {"assistant", "user"},
                     tool_use_id : ToolIds, is_error : {FALSE}]
ResultMessages == [kind : {"result"}, is_error : BOOLEAN,
                   session_id : Tokens \cup {None}, total_cost_usd : Costs]
OtherMessages == [kind : {"other"}]
Messages == TextBlocks \cup ToolUseBlocks \cup ToolResultBlocks
              \cup ResultMessages \cup OtherMessages

\* AgentManager._create_tool_result_event
create_tool_result_event(block, session_id) ==
    [StreamEvent("tool_result") EXCEPT !.tool_id = block.tool_use_id,
                                       !.tool_result = "content",
                                       !.is_error = block.is_error,
                                       !.session_id = session_id]

\* the pure part of _process_response: the events one delivery yields
EventsOf(m, sid, ask) ==
    CASE m.kind = "text" ->
           <<[StreamEvent("text") EXCEPT !.text = m.text, !.session_id = sid]>>
      [] m.kind = "tool_use" /\ m.name = "AskUserQuestion" ->
           <<[StreamEvent("user_input_required") EXCEPT
                !.tool_name = m.name, !.tool_id = m.id, !.tool_input = "input",
                !.questions = "questions", !.session_id = sid]>>
      [] m.kind = "tool_use" /\ m.name # "AskUserQuestion" ->
           <<[StreamEvent("tool_start") EXCEPT
                !.tool_name = m.name, !.tool_id = m.id, !.tool_input = "input",
                !.session_id = sid]>>
      [] m.kind = "tool_result" /\ m.role = "assistant" ->
           <<create_tool_result_event(m, sid)>>
      [] m.kind = "tool_result" /\ m.role = "user" ->
           IF m.tool_use_id \in ask THEN <<>>
           ELSE <<create_tool_result_event(m, sid)>>
      [] m.kind = "result" ->
           <<[StreamEvent("done") EXCEPT !.session_id = sid,
                !.cost = m.total_cost_usd, !.is_error = m.is_error]>>
      [] OTHER -> <<>>

\* a successful result marks the session COMPLETED
StateSetBy_Completes(m) ==
    CASE m.kind = "tool_use" /\ m.name = "AskUserQuestion" -> WAITING_INPUT
      [] m.kind = "result" -> IF m.is_error THEN ERROR ELSE COMPLETED
      [] OTHER -> None

\* the final state does not look at the result's is_error
StateSetBy_AlwaysActive(m) ==
    CASE m.kind = "tool_use" /\ m.name = "AskUserQuestion" -> WAITING_INPUT
      [] m.kind = "result" -> ACTIVE
      [] OTHER -> None

\* the session state _process_response sets before yielding the event of m
\* (None: it sets none)
StateSetBy(m) ==
    CASE m.kind = "tool_use" /\ m.name = "AskUserQuestion" -> WAITING_INPUT
      [] m.kind = "result" -> IF m.is_error THEN ERROR ELSE ACTIVE
      [] OTHER -> None

\* receive_response() delivers nothing after the ResultMessage
ResultSeen(log) == \E i \in DOMAIN log : log[i].kind = "result"

\* the token of the ResultMessage is not stored
Recv_DropsToken(r, m) ==
    LET s == req[r].session
        ask1 == IF m.kind = "tool_use" /\ m.name = "AskUserQuestion"
                THEN req[r].ask \cup {m.id} ELSE req[r].ask
    IN  /\ req[r].pc = "recv"
        /\ Len(req[r].log) < MaxMsgs
        /\ ConnOpen(r)
        /\ ~ResultSeen(req[r].log)
        /\ IF StateSetBy(m) # None /\ s \notin registered
           THEN /\ req' = [req EXCEPT ![r].pc = "done", ![r].log = Append(@, m),
                                      ![r].ask = ask1]
                /\ ManagerCatch(r, sess, SessionNotFoundText)
           ELSE /\ req' = [req EXCEPT ![r].log = Append(@, m), ![r].ask = ask1]
                /\ sess' = IF StateSetBy(m) # None
                           THEN WithState(sess, s, StateSetBy(m)) ELSE sess
                /\ Yield(r, EventsOf(m, s, req[r].ask), FALSE)
        /\ UNCHANGED <<registered, conns>>

\* one iteration of `async for message in session.client.receive_response()`
\* with the translation of the event it yields
Recv(r, m) ==
    LET s == req[r].session
        ask1 == IF m.kind = "tool_use" /\ m.name = "AskUserQuestion"
                THEN req[r].ask \cup {m.id} ELSE req[r].ask
        ss == IF m.kind = "result" /\ m.session_id # None
              THEN [sess EXCEPT ![s].sdk_session_id = m.session_id]
              ELSE sess
    IN  /\ req[r].pc = "recv"
        /\ Len(req[r].log) < MaxMsgs
        /\ ConnOpen(r)
        /\ ~ResultSeen(req[r].log)
        /\ IF StateSetBy(m) # None /\ s \notin registered
           THEN \* set_session_state raises SessionNotFoundError inside the try
                /\ req' = [req EXCEPT ![r].pc = "done", ![r].log = Append(@, m),
                                      ![r].ask = ask1]
                /\ ManagerCatch(r, ss, SessionNotFoundText)
           ELSE /\ req' = [req EXCEPT ![r].log = Append(@, m), ![r].ask = ask1]
                /\ sess' = IF StateSetBy(m) # None
                           THEN WithState(ss, s, StateSetBy(m)) ELSE ss
                /\ Yield(r, EventsOf(m, s, req[r].ask), FALSE)
        /\ UNCHANGED <<registered, conns>>

\* receive_response() is exhausted: the generators return, the sentinel follows
RecvEnd(r) ==
    /\ req[r].pc = "recv"
    /\ req' = [req EXCEPT ![r].pc = "done"]
    /\ Yield(r, <<>>, TRUE)
    /\ UNCHANGED <<sess, registered, conns>>

\* receive_response() raises
RecvFail(r, msg) ==
    /\ req[r].pc = "recv"
    /\ ~ResultSeen(req[r].log)
    /\ req' = [req EXCEPT ![r].pc = "done", ![r].fault = TRUE]
    /\ ManagerCatch(r, sess, msg)
    /\ UNCHANGED <<registered, conns>>

\* ------------------------------------------------------------------ environment

\* time passes
Tick ==
    /\ \E s \in registered : sess[s].idle <= TtlSeconds
    /\ sess' = [s \in DOMAIN sess |->
                 IF s \in registered /\ sess[s].idle <= TtlSeconds
                 THEN [sess[s] EXCEPT !.idle = @ + 1] ELSE sess[s]]
    /\ UNCHANGED <<registered, conns, req, st, frames>>

\* SessionManager.delete_session(sid), its disconnect succeeding or not
delete_session(sid, ok) ==
    IF sid \in registered
    THEN /\ registered' = registered \ {sid}
         /\ conns' = Disconnected(conns, sess[sid].client, ok, "delete_session")
         /\ sess' = Collect(sess, registered', req)
    ELSE UNCHANGED <<sess, registered, conns>>

\* DELETE /api/chat/sessions/{sid} for a registered id
DeleteSession(sid, ok) ==
    /\ sid \in registered
    /\ delete_session(sid, ok)
    /\ UNCHANGED <<req, st, frames>>

\* every record counts as expired
Expired_All == registered

\* the scan of cleanup_expired
Expired == {s \in registered : is_expired(s)}

\* SessionManager.cleanup_expired, the disconnects of failing raising
cleanup_expired(failing) ==
    /\ registered' = registered \ Expired
    /\ conns' = CleanupSessions(conns, Expired, failing, "cleanup_expired")
    /\ sess' = Collect(sess, registered', req)

\* session_cleanup_loop: a sweep that finds expired records
CleanupExpired(failing) ==
    /\ Expired # {}
    /\ failing \subseteq Expired
    /\ cleanup_expired(failing)
    /\ UNCHANGED <<req, st, frames>>

\* the connections are released but the registry is not cleared
cleanup_all_KeepsRegistry(failing) ==
    /\ registered' = registered
    /\ conns' = CleanupSessions(conns, registered, failing, "cleanup_all")
    /\ sess' = sess

\* SessionManager.cleanup_all, the disconnects of failing raising
cleanup_all(failing) ==
    /\ registered' = {}
    /\ conns' = CleanupSessions(conns, registered, failing, "cleanup_all")
    /\ sess' = Collect(sess, registered', req)

\* ------------------------------------------------------------------ specification

Init ==
    /\ sess = [s \in SessionIds |-> NoSession]
    /\ registered = {}
    /\ conns = <<>>
    /\ req = [r \in Reqs |-> NewRequest]
    /\ st = [r \in Reqs |-> VercelStreamState]
    /\ frames = [r \in Reqs |-> <<>>]

\* the session ids a client can send: one the store issued, one it did not,
\* and none (chat) or the empty string (respond)
ChatIds == Created \cup {UnknownId, None}
RespondIds == Created \cup {UnknownId, ""}

Next ==
    \/ \E r \in Reqs, sid \in ChatIds, ok \in BOOLEAN : StartChat(r, sid, ok)
    \/ \E r \in Reqs, sid \in RespondIds : StartRespond(r, sid)
    \/ \E r \in Reqs, ok \in BOOLEAN : SrGet(r, ok)
    \/ \E r \in Reqs, ok \in BOOLEAN, msg \in ErrMsgs : SrCreate(r, ok, msg)
    \/ \E r \in Reqs, ok \in BOOLEAN, msg \in ErrMsgs : SrDisconnect(r, ok, msg)
    \/ \E r \in Reqs, ok \in BOOLEAN, msg \in ErrMsgs : SrConnect(r, ok, msg)
    \/ \E r \in Reqs, ok \in BOOLEAN : RpGet(r, ok)
    \/ \E r \in Reqs : SetStreaming(r)
    \/ \E r \in Reqs, ok \in BOOLEAN, msg \in ErrMsgs : Query(r, ok, msg)
    \/ \E r \in Reqs, m \in Messages : Recv(r, m)
    \/ \E r \in Reqs : RecvEnd(r)
    \/ \E r \in Reqs, msg \in ErrMsgs : RecvFail(r, msg)
    \/ Tick
    \/ \E sid \in SessionIds, ok \in BOOLEAN : DeleteSession(sid, ok)
    \/ \E failing \in SUBSET SessionIds : CleanupExpired(failing)

Spec == Init /\ [][Next]_vars

\* ------------------------------------------------------------------ client disconnect

\* The client goes away and the streaming generator is cancelled at the await
\* it is suspended in. Neither generator has a finally clause and
\* CancelledError passes `except Exception`, so the turn just ends there: no
\* frame, no state change. The SDK call that was being awaited had taken
\* effect (effect = TRUE) or had not when the cancellation arrived:
\*   connect() of create_session: the client is in no record yet;
\*   disconnect() of the reconnect: the old client is closed or is not (the
\*     call has not returned either way);
\*   connect() of the reconnect: session.client is already the new client;
\*   query(): the prompt was written or was not.
Cancel(r, effect) ==
    /\ Running(req, r)
    /\ (req[r].pc = "sr_create" /\ effect) \/ req[r].pc = "sr_connect"
          => Len(conns) < MaxConns
    /\ req' = [req EXCEPT ![r].pc = "done", ![r].cancelled_at = req[r].pc]
    /\ LET s  == req[r].session
           cs == CASE req[r].pc = "sr_create" ->
                        IF effect THEN Append(conns, NewClient("open", None)) ELSE conns
                   [] req[r].pc = "sr_disconnect" ->
                        [conns EXCEPT ![sess[s].client].status =
                                          IF effect THEN "closed" ELSE @]
                   [] req[r].pc = "sr_connect" ->
                        Append(conns, NewClient(IF effect THEN "open" ELSE "new",
                                                sess[s].sdk_session_id))
                   [] req[r].pc = "query" ->
                        [conns EXCEPT ![sess[s].client].used = @ \/ effect]
                   [] OTHER -> conns
           ss == IF req[r].pc = "sr_connect"
                 THEN [sess EXCEPT ![s].client = Len(conns) + 1]
                 ELSE sess
       IN  /\ conns' = cs
           /\ sess' = Collect(ss, registered, req')
    /\ UNCHANGED <<registered, st, frames>>

\* the messages of a healthy upstream: text, and a result that carries an id
ConcurrentMessages ==
    {m \in TextBlocks : m.text = "a"}
      \cup {m \in ResultMessages : ~m.is_error /\ m.session_id # None}

\* one client over a healthy upstream, with deletion and expiry going on
NextCancel ==
    \/ \E r \in Reqs, sid \in Created \cup {None} : StartChat(r, sid, TRUE)
    \/ \E r \in Reqs, sid \in Created : StartRespond(r, sid)
    \/ \E r \in Reqs : SrGet(r, TRUE)
    \/ \E r \in Reqs : SrCreate(r, TRUE, "boom")
    \/ \E r \in Reqs : SrDisconnect(r, TRUE, "boom")
    \/ \E r \in Reqs : SrConnect(r, TRUE, "boom")
    \/ \E r \in Reqs : RpGet(r, TRUE)
    \/ \E r \in Reqs : SetStreaming(r)
    \/ \E r \in Reqs : Query(r, TRUE, "boom")
    \/ \E r \in Reqs, m \in ConcurrentMessages : Recv(r, m)
    \/ \E r \in Reqs : RecvEnd(r)
    \/ Tick
    \/ \E sid \in SessionIds : DeleteSession(sid, TRUE)
    \/ CleanupExpired({})
    \/ \E r \in Reqs, effect \in BOOLEAN : Cancel(r, effect)

SpecCancel == Init /\ [][NextCancel]_vars

\* C26: a cancellation at any await ends the turn's consumption of upstream
\* events, and when it lands during the reconnection (in the disconnect of
\* the old client or the connect of the new one) every connection the
\* reconnection opened is owned by a registered record or is not open.
C26_CancelLeaksNothing ==
    [][\A r \in Reqs :
         (Running(req, r) /\ req'[r].cancelled_at # None)
            => /\ req'[r].pc = "done" /\ req'[r].log = req[r].log
               /\ req[r].pc \in {"sr_disconnect", "sr_connect"}
                    => \A c \in (Len(conns) + 1)..Len(conns') :
                          conns'[c].status = "open"
                             => \E s \in registered' : sess'[s].client = c]_vars

\* ------------------------------------------------------------------ translator alone

\* The driver loop of stream_agent_response_vercel over an event source that
\* is any iterator of StreamEvents (the manager replaced by a stub, as the
\* protocol tests do): every event the manager can build, in any order
Events ==
    UNION {{EventsOf(m, "s1", {})[i] : i \in DOMAIN EventsOf(m, "s1", {})} : m \in Messages}
      \cup {ErrorEvent(msg, "s1") : msg \in ErrMsgs}

InitTranslate ==
    /\ sess = [s \in SessionIds |-> NoSession]
    /\ registered = {}
    /\ conns = <<>>
    /\ req = [r \in Reqs |-> [NewRequest EXCEPT !.pc = "feed", !.kind = "chat",
                                                 !.outcome = "stream"]]
    /\ st = [r \in Reqs |-> VercelStreamState]
    /\ frames = [r \in Reqs |-> <<>>]

\* `async for event in ...: convert_to_vercel_events(event, state)`, the frames yielded
Feed(r, event) ==
    /\ req[r].pc = "feed"
    /\ Len(req[r].log) < MaxEvents
    /\ req' = [req EXCEPT ![r].log = Append(@, event)]
    /\ Yield(r, <<event>>, FALSE)
    /\ UNCHANGED <<sess, registered, conns>>

\* the source is exhausted
FeedEnd(r) ==
    /\ req[r].pc = "feed"
    /\ req' = [req EXCEPT ![r].pc = "done"]
    /\ Yield(r, <<>>, TRUE)
    /\ UNCHANGED <<sess, registered, conns>>

\* the source raises
FeedRaise(r, msg) ==
    /\ req[r].pc = "feed"
    /\ req' = [req EXCEPT ![r].pc = "done", ![r].fault = TRUE]
    /\ WrapperCatch(r, msg, FALSE)
    /\ UNCHANGED <<sess, registered, conns>>

NextTranslate ==
    \/ \E r \in Reqs, event \in Events : Feed(r, event)
    \/ \E r \in Reqs : FeedEnd(r)
    \/ \E r \in Reqs, msg \in ErrMsgs : FeedRaise(r, msg)

SpecTranslate == InitTranslate /\ [][NextTranslate]_vars

\* ------------------------------------------------------------------ properties

Count(f, type) == Cardinality({i \in DOMAIN f : f[i].type = type})

\* a text block is open just before frame i of f
TextOpenBefore(f, i) ==
    \E j \in 1..(i - 1) :
        /\ f[j].type = "text-start"
        /\ \A k \in (j + 1)..(i - 1) : f[k].type # "text-end"

\* C1: when a stream has terminated, it carries as many text-start frames as
\* text-end frames, whether or not its events ended with done or error.
C1_TextStartsMatchTextEnds ==
    \A r \in Reqs :
        req[r].pc = "done" =>
            Count(frames[r], "text-start") = Count(frames[r], "text-end")

\* C2: no tool-input, tool-output, finish or error frame lies between a
\* text-start frame and its text-end: a non-text event first closes the block.
C2_NonTextFrameOutsideTextBlock ==
    \A r \in Reqs : \A i \in DOMAIN frames[r] :
        frames[r][i].type \in {"tool-input-start", "tool-input-available",
                               "tool-output-available", "finish", "error"}
            => ~TextOpenBefore(frames[r], i)

\* C3: every text-delta frame carries the id of the latest text-start frame
\* before it, and no text-end frame lies between that text-start and the delta.
C3_DeltaInOpenBlock ==
    \A r \in Reqs : \A i \in DOMAIN frames[r] :
        frames[r][i].type = "text-delta" =>
            \E j \in 1..(i - 1) :
                /\ frames[r][j].type = "text-start"
                /\ frames[r][j].id = frames[r][i].id
                /\ \A k \in (j + 1)..(i - 1) :
                       frames[r][k].type \notin {"text-start", "text-end"}

\* two text runs separated by another event, each with its delta
C3_Witness ==
    \E r \in Reqs : \E i, j \in DOMAIN frames[r] :
        /\ i < j
        /\ frames[r][i].type = "text-delta"
        /\ frames[r][j].type = "text-delta"
        /\ frames[r][i].id # frames[r][j].id

\* C4: no frame other than the sentinel follows a finish frame.
C4_NothingAfterFinish ==
    \A r \in Reqs : \A i, j \in DOMAIN frames[r] :
        (i < j /\ frames[r][i].type = "finish") => frames[r][j] = DoneSentinel

\* an AskUserQuestion tool call with id t was delivered before delivery i
AskedBefore(log, i, t) ==
    \E j \in 1..(i - 1) :
        log[j].kind = "tool_use" /\ log[j].name = "AskUserQuestion" /\ log[j].id = t

Asked(log) ==
    \E j \in DOMAIN log : log[j].kind = "tool_use" /\ log[j].name = "AskUserQuestion"

ResultIsError(log) == \E i \in DOMAIN log : log[i].kind = "result" /\ log[i].is_error

\* C5: within a turn, the tool-output-available frames for a call id are
\* exactly the tool results delivered for it, in either message role, that
\* no AskUserQuestion call with that id preceded: none for a question's id,
\* one per result otherwise.
C5_QuestionResultsSuppressed ==
    \A r \in Reqs : \A t \in ToolIds :
        Cardinality({i \in DOMAIN frames[r] :
                        /\ frames[r][i].type = "tool-output-available"
                        /\ frames[r][i].toolCallId = t})
          = Cardinality({i \in DOMAIN req[r].log :
                           /\ req[r].log[i].kind = "tool_result"
                           /\ req[r].log[i].tool_use_id = t
                           /\ ~AskedBefore(req[r].log, i, t)})

\* C6: a turn in which an AskUserQuestion call was delivered emits no finish
\* frame, and when its stream has ended (no upstream call having raised) the
\* session is WAITING_INPUT.
C6_QuestionEndsTurn ==
    \A r \in Reqs :
        Asked(req[r].log) =>
            /\ Count(frames[r], "finish") = 0
            /\ (req[r].pc = "done" /\ ~req[r].fault /\ req[r].session \in registered)
                  => sess[req[r].session].state = WAITING_INPUT

\* the answer of request r was submitted for a session found in WAITING_INPUT
Answering(r) == req[r].kind = "respond" /\ req[r].obs = WAITING_INPUT

\* C7 as stated: once the answer's turn has emitted its finish frame the
\* session is ACTIVE.
C7_FinishMeansActive ==
    \A r \in Reqs :
        (Answering(r) /\ Count(frames[r], "finish") > 0 /\ req[r].session \in registered)
            => sess[req[r].session].state = ACTIVE

C7_Submitted(r) == Answering(r) /\ req[r].pc = "set_streaming"

C7_Streaming(r) ==
    (Answering(r) /\ req[r].pc = "query" /\ req[r].session \in registered)
        => sess[req[r].session].state = STREAMING

C7_Settled(r) ==
    /\ req[r].pc = "done"
    /\ (ResultSeen(req[r].log) /\ req[r].session \in registered)
          => /\ Count(frames[r], "finish") = 1
             /\ sess[req[r].session].state
                  = IF ResultIsError(req[r].log) THEN ERROR ELSE ACTIVE

\* C7 amended: the answer for a session in WAITING_INPUT sets it STREAMING,
\* its turn ends, and if the terminal result was delivered while the session
\* stayed registered, the finish frame was emitted and the session is ACTIVE
\* for a successful result, ERROR for a failed one.
C7_AnswerResumesTurn ==
    /\ [](\A r \in Reqs : C7_Streaming(r))
    /\ \A r \in Reqs : C7_Submitted(r) ~> C7_Settled(r)

\* an answered turn received its successful result and finished
C7_Witness ==
    \E r \in Reqs :
        /\ Answering(r)
        /\ req[r].pc = "done"
        /\ ResultSeen(req[r].log) /\ ~ResultIsError(req[r].log)
        /\ Count(frames[r], "finish") = 1
        /\ req[r].session \in registered
        /\ sess[req[r].session].state = ACTIVE

\* C8: an answer for a session found in a state other than WAITING_INPUT
\* goes no further: the session is not set STREAMING, no query is issued.
C8_AnswerNeedsWaitingInput ==
    \A r \in Reqs :
        (req[r].kind = "respond" /\ req[r].lookup = "found" /\ req[r].obs # WAITING_INPUT)
            => /\ req[r].pc \notin {"query", "recv"}
               /\ ~req[r].queried

\* C9: a request whose session id is not in the registry, or whose answer
\* finds a session that is not WAITING_INPUT, has a client-error outcome and
\* no frame.
C9_RejectedBeforeStreaming ==
    \A r \in Reqs :
        (\/ req[r].lookup = "absent"
         \/ (req[r].kind = "respond" /\ req[r].lookup = "found"
               /\ req[r].obs # WAITING_INPUT))
            => /\ req[r].outcome # "stream"
               /\ frames[r] = <<>>

\* C10: a turn in which a call on the upstream connection raised has ended
\* with exactly one error frame in its stream.
C10_OneErrorFramePerFault ==
    \A r \in Reqs :
        req[r].fault => (req[r].pc = "done" /\ Count(frames[r], "error") = 1)

\* an upstream call raised in a turn whose session had left the registry
C10_Witness ==
    \E r \in Reqs :
        /\ req[r].fault
        /\ req[r].queried
        /\ req[r].session \notin registered
        /\ Count(frames[r], "error") = 1

\* ------------------------------------------------------------------ properties: turns and registry

Range(f) == {f[i] : i \in DOMAIN f}

\* the connection the session of request r holds
ClientOf(r) == sess[req[r].session].client

\* C11: when a step of the reconnection of a continuing turn raises, the
\* stream gets exactly one error frame and the session, if still registered,
\* is in state ERROR.
C11_ReconnectFailureSetsError ==
    [][\A r \in Reqs :
          (req[r].pc \in {"sr_disconnect", "sr_connect"} /\ req'[r].fault)
              => /\ Count(frames'[r], "error") = Count(frames[r], "error") + 1
                 /\ req[r].session \in registered'
                       => sess'[req[r].session].state = ERROR]_vars

\* C12: every query is issued on a connection no query was issued on before:
\* a turn after the session's first one has first replaced the connection.
C12_LaterTurnsReconnect ==
    [][\A r \in Reqs :
          (req[r].pc = "query" /\ req'[r].pc = "recv")
              => ~conns[ClientOf(r)].used]_vars

\* C13: a call that raises while querying or consuming leaves the registry as
\* it is and the session, if registered, in ERROR; a later stream_response
\* that looks up a registered, unexpired session in ERROR runs on that record
\* and creates no session.
C13_FaultKeepsSession ==
    [][\A r \in Reqs :
          /\ (req[r].pc \in {"query", "recv"} /\ ~req[r].fault /\ req'[r].fault)
                => /\ registered' = registered
                   /\ req[r].session \in registered
                         => sess'[req[r].session].state = ERROR
          /\ (/\ req[r].pc = "sr_get" /\ req'[r] # req[r]
              /\ req[r].sid \in registered /\ ~is_expired(req[r].sid)
              /\ sess[req[r].sid].state = ERROR)
                => /\ req'[r].session = req[r].sid
                   /\ req'[r].pc \in {"sr_disconnect", "set_streaming"}
                   /\ registered' = registered
                   /\ Len(conns') = Len(conns)]_vars

\* a turn is being consumed on a session the lookup found in ERROR
C13_Witness ==
    \E r \in Reqs :
        /\ req[r].kind = "chat" /\ req[r].obs = ERROR
        /\ req[r].session = req[r].sid
        /\ req[r].pc = "recv"
        /\ Len(req[r].log) > 0

\* request r's call of get_session returns in this step
GetStep(r) ==
    /\ req[r].pc \in {"sr_get", "rp_get"}
    /\ req[r].sid # None
    /\ req'[r] # req[r]

\* C14: get_session on an id that is not registered returns absent and
\* changes nothing; on a registered record idle for more than the TTL it
\* removes the record, calls disconnect on its connection (closed unless the
\* call raises) and returns absent; on a registered record idle for at most
\* the TTL it returns the record with last_accessed refreshed and nothing
\* else changed.
C14_GetSession ==
    [][\A r \in Reqs :
          GetStep(r) =>
            LET sid == req[r].sid
            IN  IF sid \notin registered
                THEN /\ req'[r].lookup = "absent"
                     /\ UNCHANGED <<sess, registered, conns>>
                ELSE IF sess[sid].idle > TtlSeconds
                THEN /\ req'[r].lookup = "absent"
                     /\ registered' = registered \ {sid}
                     /\ \/ conns' = conns
                        \/ /\ conns'[sess[sid].client].status = "closed"
                           /\ Len(conns'[sess[sid].client].closed_by)
                                = Len(conns[sess[sid].client].closed_by) + 1
                ELSE /\ req'[r].lookup = "found"
                     /\ req'[r].session = sid
                     /\ sess' = [sess EXCEPT ![sid].idle = 0]
                     /\ UNCHANGED <<registered, conns>>]_vars

\* a lookup evicted a record idle past the TTL and closed its connection
C14_Witness ==
    \E r \in Reqs :
        /\ req[r].lookup = "absent" /\ req[r].sid \in SessionIds
        /\ req[r].sid \notin registered
        /\ \E c \in DOMAIN conns : "get_session" \in Range(conns[c].closed_by)

\* C15: a registered record whose idle time exceeds the TTL is removed or
\* stays past the TTL: nothing makes it retrievable again.
C15_NoResurrection ==
    [][\A s \in SessionIds :
          (s \in registered /\ is_expired(s))
              => (s \notin registered' \/ sess'[s].idle > TtlSeconds)]_vars

\* C16: a connection closed by delete_session is closed by nobody else, before
\* or after.
C16_DeleteClosesOnce ==
    \A c \in DOMAIN conns :
        "delete_session" \in Range(conns[c].closed_by) => Len(conns[c].closed_by) = 1

\* C17: the record a lookup has just returned, still in the registry, holds
\* an open connection.
C17_NoReleasedRecordObserved ==
    \A r \in Reqs :
        (/\ req[r].lookup = "found"
         /\ req[r].pc \in {"sr_disconnect", "set_streaming"}
         /\ req[r].session \in registered)
            => conns[ClientOf(r)].status = "open"

\* C19: create_session either registers exactly one new record, ACTIVE, the
\* only holder of a newly opened connection, every other record untouched, or
\* raises with the registry, the records and the connections as they were.
C19_CreateAllOrNothing ==
    [][\A r \in Reqs :
          (req[r].pc = "sr_create" /\ req'[r] # req[r]) =>
             \/ /\ ~req'[r].fault
                /\ \E s \in SessionIds \ registered :
                      /\ ~Exists(s)
                      /\ registered' = registered \cup {s}
                      /\ req'[r].session = s
                      /\ sess'[s].state = ACTIVE
                      /\ Len(conns') = Len(conns) + 1
                      /\ sess'[s].client = Len(conns')
                      /\ conns'[Len(conns')].status = "open"
                      /\ \A t \in SessionIds \ {s} :
                            sess'[t] = sess[t] /\ sess'[t].client # sess'[s].client
             \/ /\ req'[r].fault
                /\ UNCHANGED <<sess, registered, conns>>]_vars

\* a create raised while the registry held a record
C19_Witness ==
    \E r \in Reqs :
        /\ req[r].kind = "chat" /\ req[r].fault
        /\ req[r].session = None
        /\ req[r].lookup = None
        /\ registered # {}

\* ------------------------------------------------------------------ concurrent requests

\* Two requests in flight together over a healthy upstream and within the TTL:
\* the same endpoints and generators, interleaved at their awaits
InitConcurrent ==
    /\ sess = [s \in ConcurrentIds |-> NoSession]
    /\ registered = {}
    /\ conns = <<>>
    /\ req = [r \in Callers |-> NewRequest]
    /\ st = [r \in Callers |-> VercelStreamState]
    /\ frames = [r \in Callers |-> <<>>]

NextConcurrent ==
    \/ \E r \in Callers, sid \in Created \cup {None} : StartChat(r, sid, TRUE)
    \/ \E r \in Callers, sid \in Created : StartRespond(r, sid)
    \/ \E r \in Callers : SrGet(r, TRUE)
    \/ \E r \in Callers, ok \in BOOLEAN : SrCreate(r, ok, "boom")
    \/ \E r \in Callers : SrDisconnect(r, TRUE, "boom")
    \/ \E r \in Callers : SrConnect(r, TRUE, "boom")
    \/ \E r \in Callers : RpGet(r, TRUE)
    \/ \E r \in Callers : SetStreaming(r)
    \/ \E r \in Callers : Query(r, TRUE, "boom")
    \/ \E r \in Callers, m \in ConcurrentMessages : Recv(r, m)
    \/ \E r \in Callers : RecvEnd(r)
    \/ \E sid \in ConcurrentIds : DeleteSession(sid, TRUE)

SpecConcurrent == InitConcurrent /\ [][NextConcurrent]_vars

\* request r has begun to use its session's connection and has not finished
\* consuming: its reconnection has closed the old connection, or its query
\* was accepted and it is reading receive_response()
Driving(r) == req[r].pc \in {"sr_connect", "recv"}

\* C18: no two requests are driving the connection of the same session.
C18_OneDriverPerSession ==
    \A r1, r2 \in Callers :
        (r1 # r2 /\ Driving(r1) /\ Driving(r2))
            => req[r1].session # req[r2].session

\* C20: each successful create_session, whatever the other requests are
\* doing, registers an id that no record, present or removed, was ever given
\* and that no request holds; the registry grows by exactly that one record
\* and every other record is left as it was.
C20_CreatesGetDistinctIds ==
    [][\A r \in Callers :
          (req[r].pc = "sr_create" /\ req'[r].pc = "set_streaming") =>
             LET s == req'[r].session
             IN  /\ s \in ConcurrentIds
                 /\ ~Exists(s)
                 /\ \A q \in Callers : req[q].session # s
                 /\ s \notin registered
                 /\ registered' = registered \cup {s}
                 /\ Cardinality(registered') = Cardinality(registered) + 1
                 /\ \A t \in ConcurrentIds \ {s} : sess'[t] = sess[t]]_vars

\* two creates in flight together have both returned: two records, two ids
C20_Witness ==
    /\ \A r \in Callers :
          /\ req[r].kind = "chat" /\ req[r].lookup = None
          /\ req[r].pc = "set_streaming"
          /\ req[r].session \in registered
    /\ req["r1"].session # req["r2"].session
    /\ Cardinality(registered) = 2

\* ------------------------------------------------------------------ the store alone

\* The methods of SessionManager called directly, one call at a time, with
\* any arguments (as the unit tests of the store do), and time passing
\* between the calls. A call is made (StoreInvoke) and then its body runs
\* under the lock.
StoreArgIds == ConcurrentIds \cup {UnknownId}
StoreCalls ==
    [kind : {"create_session", "cleanup_expired", "cleanup_all"},
     sid : {None}, arg : {None}]
      \cup [kind : {"get_session", "delete_session"}, sid : StoreArgIds, arg : {None}]
      \cup [kind : {"set_session_state"}, sid : StoreArgIds, arg : SessionState]

InitStore ==
    /\ sess = [s \in ConcurrentIds |-> NoSession]
    /\ registered = {}
    /\ conns = <<>>
    /\ req = [r \in Reqs |-> NewRequest]
    /\ st = [r \in Reqs |-> VercelStreamState]
    /\ frames = [r \in Reqs |-> <<>>]

StoreInvoke(r, call) ==
    /\ req[r].pc \in {"idle", "done"}
    /\ req' = [req EXCEPT ![r] =
                 [NewRequest EXCEPT !.pc = "call", !.kind = call.kind,
                                    !.sid = call.sid, !.arg = call.arg]]
    /\ UNCHANGED <<sess, registered, conns, st, frames>>

\* the body of method kind is run by caller r in this step
Calling(r, kind) == req[r].pc = "call" /\ req[r].kind = kind

\* create_session: connect() returns or raises
StoreCreate(r, ok) ==
    /\ Calling(r, "create_session")
    /\ ok => (Len(conns) < MaxConns /\ Created # DOMAIN sess)
    /\ IF ok
       THEN /\ create_session(uuid4)
            /\ req' = [req EXCEPT ![r].pc = "done", ![r].session = uuid4,
                                  ![r].outcome = "returned"]
       ELSE /\ req' = [req EXCEPT ![r].pc = "done", ![r].fault = TRUE,
                                  ![r].outcome = "raised"]
            /\ UNCHANGED <<sess, registered, conns>>
    /\ UNCHANGED <<st, frames>>

StoreGet(r, ok) ==
    /\ Calling(r, "get_session")
    /\ get_session(req[r].sid, ok,
            req' = [req EXCEPT ![r].pc = "done", ![r].lookup = "found",
                               ![r].session = req[r].sid,
                               ![r].obs = sess[req[r].sid].state],
            req' = [req EXCEPT ![r].pc = "done", ![r].lookup = "absent",
                               ![r].failing = IF req[r].sid \in registered /\ ~ok
                                              THEN {req[r].sid} ELSE {}])
    /\ UNCHANGED <<st, frames>>

\* set_session_state(sid, state)
StoreSetState(r) ==
    /\ Calling(r, "set_session_state")
    /\ IF req[r].sid \in registered
       THEN /\ sess' = WithState(sess, req[r].sid, req[r].arg)
            /\ req' = [req EXCEPT ![r].pc = "done", ![r].outcome = "returned"]
       ELSE /\ req' = [req EXCEPT ![r].pc = "done",
                                  ![r].outcome = "SessionNotFoundError"]
            /\ UNCHANGED sess
    /\ UNCHANGED <<registered, conns, st, frames>>

StoreDelete(r, ok) ==
    /\ Calling(r, "delete_session")
    /\ delete_session(req[r].sid, ok)
    /\ req' = [req EXCEPT ![r].pc = "done",
                          ![r].outcome = IF req[r].sid \in registered
                                         THEN "True" ELSE "False",
                          ![r].failing = IF req[r].sid \in registered /\ ~ok
                                         THEN {req[r].sid} ELSE {}]
    /\ UNCHANGED <<st, frames>>

StoreCleanupExpired(r, failing) ==
    /\ Calling(r, "cleanup_expired")
    /\ failing \subseteq Expired
    /\ cleanup_expired(failing)
    /\ req' = [req EXCEPT ![r].pc = "done", ![r].outcome = "returned",
                          ![r].count = Cardinality(Expired),
                          ![r].failing = failing]
    /\ UNCHANGED <<st, frames>>

StoreCleanupAll(r, failing) ==
    /\ Calling(r, "cleanup_all")
    /\ failing \subseteq registered
    /\ cleanup_all(failing)
    /\ req' = [req EXCEPT ![r].pc = "done", ![r].outcome = "returned",
                          ![r].count = Cardinality(registered),
                          ![r].failing = failing]
    /\ UNCHANGED <<st, frames>>

NextStore ==
    \/ \E r \in Reqs, call \in StoreCalls : StoreInvoke(r, call)
    \/ \E r \in Reqs, ok \in BOOLEAN : StoreCreate(r, ok)
    \/ \E r \in Reqs, ok \in BOOLEAN : StoreGet(r, ok)
    \/ \E r \in Reqs : StoreSetState(r)
    \/ \E r \in Reqs, ok \in BOOLEAN : StoreDelete(r, ok)
    \/ \E r \in Reqs, failing \in SUBSET ConcurrentIds : StoreCleanupExpired(r, failing)
    \/ \E r \in Reqs, failing \in SUBSET ConcurrentIds : StoreCleanupAll(r, failing)
    \/ Tick

SpecStore == InitStore /\ [][NextStore]_vars

\* the body of method kind, called by r, runs in this step
Body(r, kind) == Calling(r, kind) /\ req'[r].pc = "done"

\* C21: set_session_state on an id that is not registered raises
\* SessionNotFoundError and changes nothing; on a registered id it sets that
\* record's state to the given one, whatever both are, refreshes its
\* last_accessed, and changes no other field, record, connection or key.
C21_SetSessionState ==
    [][\A r \in Reqs :
          Body(r, "set_session_state") =>
             IF req[r].sid \notin registered
             THEN /\ req'[r].outcome = "SessionNotFoundError"
                  /\ UNCHANGED <<sess, registered, conns>>
             ELSE /\ req'[r].outcome = "returned"
                  /\ sess' = [sess EXCEPT ![req[r].sid].state = req[r].arg,
                                          ![req[r].sid].idle = 0]
                  /\ UNCHANGED <<registered, conns>>]_vars

\* a record was set to COMPLETED, a state no turn sets, beside another record
C21_Witness ==
    \E r \in Reqs :
        /\ req[r].kind = "set_session_state" /\ req[r].pc = "done"
        /\ req[r].outcome = "returned"
        /\ req[r].sid \in registered
        /\ sess[req[r].sid].state = COMPLETED
        /\ registered # {req[r].sid}

\* disconnect() was called on the connection of s in this step by who and returned
Released(s, who) ==
    LET c == sess[s].client
    IN  /\ conns'[c].status = "closed"
        /\ conns'[c].closed_by = Append(conns[c].closed_by, who)

\* C22: cleanup_expired removes exactly the records idle for more than the
\* TTL when it scans, calls disconnect on the connection of each (closed
\* unless that call raises), leaves every other record and its connection
\* as they were, and returns the number of records it removed.
C22_CleanupExpired ==
    [][\A r \in Reqs :
          Body(r, "cleanup_expired") =>
             LET E == {s \in registered : sess[s].idle > TtlSeconds}
             IN  /\ registered' = registered \ E
                 /\ req'[r].count = Cardinality(E)
                 /\ req'[r].outcome = "returned"
                 /\ \A s \in E : s \in req'[r].failing \/ Released(s, "cleanup_expired")
                 /\ \A s \in registered \ E :
                       /\ sess'[s] = sess[s]
                       /\ conns'[sess[s].client] = conns[sess[s].client]]_vars

\* a sweep removed one record of two and closed its connection
C22_Witness ==
    \E r \in Reqs :
        /\ req[r].kind = "cleanup_expired" /\ req[r].pc = "done"
        /\ req[r].count = 1 /\ req[r].failing = {}
        /\ Cardinality(registered) = 1
        /\ \E c \in DOMAIN conns : conns[c].closed_by = <<"cleanup_expired">>

\* C23: cleanup_all returns the number of records the registry held, leaves
\* the registry empty and has called disconnect on the connection of each of
\* those records (closed unless that call raised).
C23_CleanupAll ==
    [][\A r \in Reqs :
          Body(r, "cleanup_all") =>
             /\ req'[r].count = Cardinality(registered)
             /\ req'[r].outcome = "returned"
             /\ registered' = {}
             /\ \A s \in registered :
                   s \in req'[r].failing \/ Released(s, "cleanup_all")]_vars

\* a drain of two records closed both connections
C23_Witness ==
    \E r \in Reqs :
        /\ req[r].kind = "cleanup_all" /\ req[r].pc = "done"
        /\ req[r].count = 2 /\ req[r].failing = {}
        /\ registered = {}
        /\ \A c \in DOMAIN conns : conns[c].closed_by = <<"cleanup_all">>

\* C24: when a disconnect raises inside delete_session, the eviction of
\* get_session, cleanup_expired or cleanup_all, the method raises nothing and
\* returns what it returns otherwise, the record is removed all the same, and
\* a sweep or drain still releases and counts the other records.
C24_ReleaseFailureSwallowed ==
    [][\A r \in Reqs :
          req'[r].failing # {} =>
             /\ Body(r, "delete_session") =>
                   /\ req'[r].outcome = "True"
                   /\ registered' = registered \ {req[r].sid}
             /\ Body(r, "get_session") =>
                   /\ req'[r].lookup = "absent" /\ ~req'[r].fault
                   /\ registered' = registered \ {req[r].sid}
             /\ Body(r, "cleanup_expired") =>
                   LET E == {s \in registered : sess[s].idle > TtlSeconds}
                   IN  /\ req'[r].outcome = "returned"
                       /\ req'[r].count = Cardinality(E)
                       /\ registered' = registered \ E
                       /\ \A s \in E \ req'[r].failing : Released(s, "cleanup_expired")
             /\ Body(r, "cleanup_all") =>
                   /\ req'[r].outcome = "returned"
                   /\ req'[r].count = Cardinality(registered)
                   /\ registered' = {}
                   /\ \A s \in registered \ req'[r].failing :
                         Released(s, "cleanup_all")]_vars

\* a sweep of two expired records in which one disconnect raised: both are
\* gone, both are counted, the other connection is closed
C24_Witness ==
    \E r \in Reqs :
        /\ req[r].kind = "cleanup_expired" /\ req[r].pc = "done"
        /\ req[r].count = 2 /\ Cardinality(req[r].failing) = 1
        /\ registered = {}
        /\ \E c \in DOMAIN conns : conns[c].closed_by = <<"cleanup_expired">>
        /\ \E c \in DOMAIN conns : conns[c].status = "open"

\* ------------------------------------------------------------------ properties of the stream

\* C27: a response stream that has run to its end, whatever its events were
\* and wherever its producer raised, ends with the [DONE] sentinel and holds
\* it once; a stream still running holds none, and nothing is added to a
\* stream that holds one.
C27_EndsWithOneSentinel ==
    /\ [](\A r \in Reqs :
            LET f == frames[r]
            IN  IF req[r].pc = "done" /\ req[r].outcome = "stream"
                THEN /\ Len(f) > 0 /\ f[Len(f)] = DoneSentinel
                     /\ Count(f, "[DONE]") = 1
                ELSE Count(f, "[DONE]") = 0)
    /\ [][\A r \in Reqs :
            Count(frames[r], "[DONE]") = 1
                => frames'[r] = frames[r] \/ frames'[r] = <<>>]_vars

\* a respond turn whose producer raised after a frame had been streamed
C27_Witness ==
    \E r \in Reqs :
        /\ req[r].pc = "done" /\ req[r].kind = "respond" /\ req[r].fault
        /\ Len(req[r].log) >= 1
        /\ Len(frames[r]) >= 3
        /\ frames[r][Len(frames[r])] = DoneSentinel
        /\ frames[r][Len(frames[r]) - 1].type = "error"

\* a step in which only time passes
TimePasses == req' = req /\ registered' = registered /\ conns' = conns

\* C28: while a record stays in the registry its last_accessed never moves
\* back: its idle age grows only with the clock and otherwise stays or drops
\* to zero; and the record a running turn holds keeps the id it was created
\* or found under.
C28_LastAccessedMonotone ==
    [][/\ \A s \in registered \cap registered' :
             sess'[s].idle <= sess[s].idle + (IF TimePasses THEN 1 ELSE 0)
       /\ \A r \in Reqs :
             (Running(req, r) /\ Running(req', r) /\ req[r].session # None)
                => req'[r].session = req[r].session]_vars

\* a respond turn found the record, set it STREAMING (both touch it), and
\* time has passed since while the turn reads its answer
C28_Witness ==
    \E r \in Reqs :
        /\ req[r].kind = "respond" /\ req[r].lookup = "found" /\ req[r].pc = "recv"
        /\ req[r].session \in registered
        /\ sess[req[r].session].idle = 1
        /\ Len(req[r].log) >= 1

\* the translations of the events of log, one after the other, from state s
RECURSIVE TranslateAll(_, _)
TranslateAll(log, s) ==
    IF log = <<>> THEN <<>>
    ELSE LET c == convert_to_vercel_events(Head(log), s)
         IN  c.out \o TranslateAll(Tail(log), c.st)

\* C29: after every event the stream is exactly the translations of the
\* events received so far, in their order (followed, once it has ended, by
\* the translation of the error raised, if any, and the sentinel), and a
\* text-end comes only as the first frame of what one event adds.
C29_InOrderConcatenation ==
    /\ [](\A r \in Reqs :
            CASE req[r].pc = "feed" ->
                   frames[r] = TranslateAll(req[r].log, VercelStreamState)
              [] req[r].pc = "done" /\ ~req[r].fault ->
                   frames[r] = TranslateAll(req[r].log, VercelStreamState)
                                 \o <<DoneSentinel>>
              [] OTHER ->
                   \E msg \in ErrMsgs :
                       frames[r] = TranslateAll(Append(req[r].log, ErrorEvent(msg, None)),
                                                VercelStreamState)
                                     \o <<DoneSentinel>>)
    /\ [][\A r \in Reqs :
            /\ Len(frames'[r]) >= Len(frames[r])
            /\ SubSeq(frames'[r], 1, Len(frames[r])) = frames[r]
            /\ \A i \in (Len(frames[r]) + 2)..Len(frames'[r]) :
                   frames'[r][i].type # "text-end"]_vars

\* a stream running over text, a tool call and text again: the second block
\* opened after the text-end that the tool call put first
C29_Witness ==
    \E r \in Reqs :
        /\ req[r].pc = "feed" /\ Len(req[r].log) = 3
        /\ req[r].log[1].type = "text" /\ req[r].log[2].type = "tool_start"
        /\ req[r].log[3].type = "text"
        /\ Len(frames[r]) = 7
        /\ frames[r][3].type = "text-end"
        /\ frames[r][6].type = "text-start"

\* what the step added to the stream of r
Added(r) == SubSeq(frames'[r], Len(frames[r]) + 1, Len(frames'[r]))

\* the step translated one more text event of r
TextStep(r) ==
    /\ req[r].pc = "feed" /\ Len(req'[r].log) = Len(req[r].log) + 1
    /\ req'[r].log[Len(req'[r].log)].type = "text"

\* a text block is open at the end of f, and its id
BlockOpen(f) == TextOpenBefore(f, Len(f) + 1)
OpenId(f) ==
    LET j == CHOOSE i \in DOMAIN f :
                 f[i].type = "text-start"
                   /\ \A k \in (i + 1)..Len(f) : f[k].type # "text-start"
    IN  f[j].id
BlockIds(f) == {f[i].id : i \in {j \in DOMAIN f : f[j].type = "text-start"}}

\* C30 as stated: a text event with content that finds no block open adds a
\* text-start with an id no earlier block had and a text-delta with that id
\* and the text; a text event that finds a block open adds exactly one frame,
\* a text-delta with the id of that block.
C30_TextFrames ==
    [][\A r \in Reqs :
         TextStep(r) =>
           LET f == frames[r]
               text == req'[r].log[Len(req'[r].log)].text
           IN  IF BlockOpen(f)
               THEN Added(r) = <<[type |-> "text-delta", id |-> OpenId(f), delta |-> text]>>
               ELSE text # ""
                      => /\ Len(Added(r)) = 2
                         /\ Added(r)[1].type = "text-start"
                         /\ Added(r)[1].id \notin BlockIds(f)
                         /\ Added(r)[2] = [type |-> "text-delta", id |-> Added(r)[1].id,
                                           delta |-> text]]_vars

\* C30, amended: a text event that finds no block open adds a text-start with
\* an id no earlier block had; one that finds a block open adds no text-start;
\* either then adds one text-delta with the block's id and the text when the
\* text is not empty, and no further frame when it is empty.
C30_TextFramesAmended ==
    [][\A r \in Reqs :
         TextStep(r) =>
           LET f == frames[r]
               text == req'[r].log[Len(req'[r].log)].text
               start == IF BlockOpen(f) THEN <<>> ELSE <<Added(r)[1]>>
               id == IF BlockOpen(f) THEN OpenId(f) ELSE Added(r)[1].id
           IN  /\ ~BlockOpen(f)
                    => /\ Len(Added(r)) >= 1
                       /\ Added(r)[1].type = "text-start"
                       /\ Added(r)[1].id \notin BlockIds(f)
               /\ Added(r) = start \o
                     (IF text # ""
                      THEN <<[type |-> "text-delta", id |-> id, delta |-> text]>>
                      ELSE <<>>)]_vars

\* two blocks with different ids, the first having taken an empty text event
\* that added nothing
C30_Witness ==
    \E r \in Reqs :
        /\ Len(req[r].log) = 4
        /\ req[r].log[1].type = "text" /\ req[r].log[1].text = "a"
        /\ req[r].log[2].type = "text" /\ req[r].log[2].text = ""
        /\ req[r].log[3].type = "tool_start"
        /\ req[r].log[4].type = "text" /\ req[r].log[4].text = "a"
        /\ Len(frames[r]) = 7
        /\ frames[r][1].type = "text-start" /\ frames[r][6].type = "text-start"
        /\ frames[r][1].id # frames[r][6].id
        /\ frames[r][7].id = frames[r][6].id

\* C31: an empty text event that finds no block open adds the text-start and
\* nothing else and leaves the block open; one that finds a block open adds
\* no frame and leaves the translator's state as it was.
C31_EmptyText ==
    [][\A r \in Reqs :
         (TextStep(r) /\ req'[r].log[Len(req'[r].log)].text = "")
            => IF st[r].text_started
               THEN Added(r) = <<>> /\ st'[r] = st[r]
               ELSE /\ Len(Added(r)) = 1
                    /\ Added(r)[1].type = "text-start"
                    /\ st'[r].text_started
                    /\ st'[r].text_id = Added(r)[1].id]_vars

\* two empty text events: the first opened the block, the second added nothing
C31_Witness ==
    \E r \in Reqs :
        /\ Len(req[r].log) = 2
        /\ \A i \in 1..2 : req[r].log[i].type = "text" /\ req[r].log[i].text = ""
        /\ Len(frames[r]) = 1 /\ frames[r][1].type = "text-start"
        /\ st[r].text_started

\* vercel_event_to_sse: the line `data: <json of the frame>` (the sentinel is
\* the line `data: [DONE]`)
vercel_event_to_sse(ve) == [field |-> "data", value |-> ve]

\* the lines POST /api/chat has written for request r
Wire(r) == [i \in DOMAIN frames[r] |-> vercel_event_to_sse(frames[r][i])]

\* the frame codes of the line-coded encoding
LineCodes == {"0", "2", "3", "9", "a", "b", "d", "e"}

\* parse_data_stream of the integration tests: a line counts as a frame when
\* what follows its first two characters is JSON, that is when it reads
\* `<code>:<json>`; its code is its first character
IsLineCoded(line) == line.field \in LineCodes
parse_data_stream(lines) ==
    LET kept == SelectSeq(lines, IsLineCoded)
    IN  [i \in DOMAIN kept |-> kept[i].field]

\* the events of log are n text events and then one done event
TextsThenDone(log) ==
    /\ Len(log) >= 1
    /\ log[Len(log)].type = "done"
    /\ \A i \in 1..(Len(log) - 1) : log[i].type = "text"

\* C32: the line-coded output of a chat turn of n text events and a done
\* event is n `0` frames, then one `e`, then one `d`, and then one `2` frame
\* exactly when a session id is known.
C32_LineCodedTurn ==
    \A r \in Reqs :
        (req[r].pc = "done" /\ ~req[r].fault /\ req[r].kind = "chat"
            /\ TextsThenDone(req[r].log))
          => parse_data_stream(Wire(r)) =
                [i \in 1..(Len(req[r].log) - 1) |-> "0"] \o <<"e", "d">>
                  \o (IF st[r].session_id # None THEN <<"2">> ELSE <<>>)

\* C33: the step that consumes the terminal result of a turn on a registered
\* session leaves the session ACTIVE, or ERROR for an error result, and the
\* resume token replaced by the result's (kept when it carries none), with
\* the finish frame emitted by that step and not before; and a reconnection
\* opens its connection with the token the session then holds.
C33_ResultUpdatesSession ==
    [][\A r \in Reqs :
         LET s == req[r].session
         IN  /\ (req[r].pc = "recv" /\ Len(req'[r].log) = Len(req[r].log) + 1
                   /\ req'[r].log[Len(req'[r].log)].kind = "result"
                   /\ s \in registered)
                  => LET m == req'[r].log[Len(req'[r].log)]
                     IN  /\ sess'[s].state = IF m.is_error THEN ERROR ELSE ACTIVE
                         /\ sess'[s].sdk_session_id =
                               IF m.session_id # None THEN m.session_id
                               ELSE sess[s].sdk_session_id
                         /\ Count(frames[r], "finish") = 0
                         /\ Count(frames'[r], "finish") = 1
             /\ (req[r].pc = "sr_connect" /\ req'[r].pc = "set_streaming")
                  => /\ sess[s].sdk_session_id # "default"
                     /\ conns'[sess'[s].client].resume = sess[s].sdk_session_id]_vars

\* a later chat turn reconnected with the token of the first turn's result
\* and consumed an error result: ERROR, token kept, one finish frame
C33_Witness ==
    \E r \in Reqs :
        /\ req[r].kind = "chat" /\ req[r].session \in registered
        /\ ResultSeen(req[r].log) /\ ResultIsError(req[r].log)
        /\ conns[ClientOf(r)].resume = "tokA"
        /\ sess[req[r].session].sdk_session_id = "tokA"
        /\ sess[req[r].session].state = ERROR
        /\ Count(frames[r], "finish") = 1

\* C34: a registered session on which no turn is in progress is not STREAMING.
C34_StreamingNeverRests ==
    \A s \in registered :
        (~\E r \in Reqs : Running(req, r) /\ req[r].session = s)
            => sess[s].state # STREAMING

\* C35: whatever removals of the record were interleaved with it, the
\* connection a reconnection opens belongs to a record that is in the registry.
C35_ReconnectLeavesNoOrphan ==
    [][\A r \in Reqs :
         (req[r].pc = "sr_connect" /\ req'[r].pc = "set_streaming")
            => \A c \in (Len(conns) + 1)..Len(conns') :
                  conns'[c].status = "open"
                     => \E s \in registered' : sess'[s].client = c]_vars

\* C36: the connection of a registered session that is STREAMING with a turn
\* in progress is not released by cleanup_expired or by the eviction of
\* get_session.
C36_StreamingNotEvicted ==
    [][\A s \in registered :
         (/\ sess[s].state = STREAMING
          /\ \E r \in Reqs : req[r].pc \in {"query", "recv"} /\ req[r].session = s)
            => LET c == sess[s].client
                   was == conns[c].closed_by
                   now == conns'[c].closed_by
               IN  now # was => now[Len(now)] \notin {"cleanup_expired", "get_session"}]_vars

\* get_sse_headers(request.session_id): the x-session-id header of the
\* response to request r, set when the request carries a session id
XSessionId(r) == IF req[r].sid \notin {None, ""} THEN req[r].sid ELSE None

\* C37: a chat request that supplied a session id gets that of the session
\* which runs its turn in the x-session-id header: the id of the record the
\* turn holds and the session id its frames carry.
C37_HeaderNamesTheSession ==
    \A r \in Reqs :
        (req[r].kind = "chat" /\ req[r].outcome = "stream" /\ req[r].sid # None)
            => /\ req[r].session # None => XSessionId(r) = req[r].session
               /\ st[r].session_id # None => XSessionId(r) = st[r].session_id

\* C40: every session record that is in the registry or held by a running
\* turn is ACTIVE, STREAMING, WAITING_INPUT or ERROR, never COMPLETED.
C40_NeverCompleted ==
    \A s \in DOMAIN sess :
        (s \in registered \/ \E r \in Reqs : Running(req, r) /\ req[r].session = s)
            => sess[s].state \in {ACTIVE, STREAMING, WAITING_INPUT, ERROR}

\* a turn on a session found in the registry has ended with its successful
\* result: the session is ACTIVE again
C40_Witness ==
    \E r \in Reqs :
        /\ req[r].pc = "done" /\ req[r].lookup = "found"
        /\ ResultSeen(req[r].log) /\ ~ResultIsError(req[r].log)
        /\ req[r].session \in registered
        /\ sess[req[r].session].state = ACTIVE
        /\ Count(frames[r], "finish") = 1

\* ------------------------------------------------------------------ reaper and shutdown

\* The two tasks of main.py: session_cleanup_loop and lifespan. req holds
\* their positions; sessions are created while the application serves, time
\* passes, the sweep runs with its awaits (one disconnect per expired record,
\* inside the lock), and shutdown cancels the reaper, awaits it and drains.
Tasks == {"reaper", "lifespan", "request"}

InitLifecycle ==
    /\ sess = [s \in ConcurrentIds |-> NoSession]
    /\ registered = {}
    /\ conns = <<>>
    /\ req = [t \in Tasks |->
                [NewRequest EXCEPT !.kind = t,
                                   !.pc = CASE t = "reaper" -> "sleep"
                                            [] t = "lifespan" -> "serving"
                                            [] OTHER -> "idle"]]
    /\ st = [t \in Tasks |-> VercelStreamState]
    /\ frames = [t \in Tasks |-> <<>>]

\* while the application serves, a chat request without a session id comes
\* in and calls create_session, whose connect() is then pending
ServeBegin ==
    /\ req["lifespan"].pc = "serving"
    /\ req["request"].pc \in {"idle", "set_streaming", "done"}
    /\ req' = [req EXCEPT !["request"] =
                 [NewRequest EXCEPT !.kind = "chat", !.pc = "sr_create",
                                    !.outcome = "stream"]]
    /\ st' = [st EXCEPT !["request"] = VercelStreamState]
    /\ frames' = [frames EXCEPT !["request"] = <<>>]
    /\ sess' = Collect(sess, registered, req')
    /\ UNCHANGED <<registered, conns>>

\* connect() returns and the record is inserted, or connect() raises
ServeCreate(ok) == SrCreate("request", ok, "boom")

\* cleanup_expired pops the next expired id and awaits its disconnect, or,
\* none being left, returns and the loop sleeps again
SweepNext(ids, reg) ==
    IF ids = {}
    THEN /\ req' = [req EXCEPT !["reaper"].pc = "sleep", !["reaper"].session = None,
                               !["reaper"].expired_ids = {}]
         /\ registered' = reg
    ELSE LET s == CHOOSE x \in ids : TRUE
         IN  /\ req' = [req EXCEPT !["reaper"].pc = "sweep", !["reaper"].session = s,
                                   !["reaper"].expired_ids = ids \ {s}]
             /\ registered' = reg \ {s}

\* asyncio.sleep returns: cleanup_expired takes the lock and scans
ReaperWake ==
    /\ req["reaper"].pc = "sleep"
    /\ req["lifespan"].pc = "serving"
    /\ Expired # {}
    /\ SweepNext(Expired, registered)
    /\ UNCHANGED <<sess, conns, st, frames>>

\* the loop ends on the error of a tick
ReaperTickFails_Stops ==
    /\ req["reaper"].pc = "sleep"
    /\ req["lifespan"].pc = "serving"
    /\ req' = [req EXCEPT !["reaper"].fault = TRUE, !["reaper"].pc = "stopped"]
    /\ UNCHANGED <<sess, registered, conns, st, frames>>

\* a tick raises an Exception before its sweep has popped anything (errors of
\* the disconnects are swallowed further in): `except Exception` logs it and
\* the loop goes back to its sleep
ReaperTickFails ==
    /\ req["reaper"].pc = "sleep"
    /\ req["lifespan"].pc = "serving"
    /\ req' = [req EXCEPT !["reaper"].fault = TRUE]
    /\ UNCHANGED <<sess, registered, conns, st, frames>>

\* the disconnect awaited by _cleanup_session returns or raises (logged)
ReaperSweep(ok) ==
    /\ req["reaper"].pc = "sweep"
    /\ req["lifespan"].pc = "serving"
    /\ conns' = Disconnected(conns, sess[req["reaper"].session].client, ok,
                             "cleanup_expired")
    /\ SweepNext(req["reaper"].expired_ids, registered)
    /\ sess' = Collect(sess, registered', req')
    /\ UNCHANGED <<st, frames>>

\* shutdown: cleanup_task.cancel(), then `await cleanup_task`
LifespanCancel ==
    /\ req["lifespan"].pc = "serving"
    /\ req' = [req EXCEPT !["lifespan"].pc = "await_task"]
    /\ UNCHANGED <<sess, registered, conns, st, frames>>

\* CancelledError is raised at the await the reaper is suspended in (the
\* sleep, or the disconnect of a sweep, which it may or may not have
\* completed); it passes `except Exception` and the loop breaks
ReaperCancelled(closed) ==
    /\ req["lifespan"].pc = "await_task"
    /\ req["reaper"].pc \in {"sleep", "sweep"}
    /\ conns' = IF req["reaper"].pc = "sweep"
                THEN Disconnected(conns, sess[req["reaper"].session].client, closed,
                                  "cleanup_expired")
                ELSE conns
    /\ req' = [req EXCEPT !["reaper"].pc = "stopped"]
    /\ UNCHANGED <<sess, registered, st, frames>>

\* the lifespan goes on without waiting for the task to finish
LifespanAwaited_NoWait ==
    /\ req["lifespan"].pc = "await_task"
    /\ req' = [req EXCEPT !["lifespan"].pc = "drain"]
    /\ UNCHANGED <<sess, registered, conns, st, frames>>

\* `await cleanup_task` returns once the task is done
LifespanAwaited ==
    /\ req["lifespan"].pc = "await_task"
    /\ req["reaper"].pc = "stopped"
    /\ req' = [req EXCEPT !["lifespan"].pc = "drain"]
    /\ UNCHANGED <<sess, registered, conns, st, frames>>

\* `await manager.cleanup()`: cleanup_all
LifespanDrain(failing) ==
    /\ req["lifespan"].pc = "drain"
    /\ failing \subseteq registered
    /\ req' = [req EXCEPT !["lifespan"].pc = "down",
                          !["lifespan"].count = Cardinality(registered)]
    /\ registered' = {}
    /\ conns' = CleanupSessions(conns, registered, failing, "cleanup_all")
    /\ sess' = Collect(sess, registered', req')
    /\ UNCHANGED <<st, frames>>

NextLifecycle ==
    \/ ServeBegin
    \/ \E ok \in BOOLEAN : ServeCreate(ok)
    \/ Tick
    \/ ReaperWake
    \/ ReaperTickFails
    \/ \E ok \in BOOLEAN : ReaperSweep(ok)
    \/ LifespanCancel
    \/ \E closed \in BOOLEAN : ReaperCancelled(closed)
    \/ LifespanAwaited
    \/ \E failing \in SUBSET ConcurrentIds : LifespanDrain(failing)

SpecLifecycle == InitLifecycle /\ [][NextLifecycle]_vars

\* C25: from the moment cleanup_all is about to begin, the reaper task has
\* stopped, so no sweep is running and none starts: once stopped, the reaper
\* takes no further step.
C25_ReaperStoppedBeforeDrain ==
    /\ [](req["lifespan"].pc \in {"drain", "down"} => req["reaper"].pc = "stopped")
    /\ [][req["reaper"].pc = "stopped" => req'["reaper"] = req["reaper"]]_vars

\* shutdown completed after the cancellation interrupted a sweep that had
\* one more expired record to pop
C25_Witness ==
    /\ req["lifespan"].pc = "down"
    /\ req["reaper"].pc = "stopped"
    /\ req["reaper"].expired_ids # {}
    /\ req["lifespan"].count = 1

\* C38: once cleanup_all has returned at shutdown the registry is empty,
\* also when a create_session was opening its connection during the drain.
C38_DrainedRegistryStaysEmpty ==
    req["lifespan"].pc = "down" => registered = {}

\* the timer fires again and a sweep that was begun goes on
FairLifecycle ==
    /\ SpecLifecycle
    /\ WF_vars(ReaperWake)
    /\ WF_vars(\E ok \in BOOLEAN : ReaperSweep(ok))

Turn(r) ==
    \/ \E ok \in BOOLEAN : SrGet(r, ok)
    \/ \E ok \in BOOLEAN, msg \in ErrMsgs : SrCreate(r, ok, msg)
    \/ \E ok \in BOOLEAN, msg \in ErrMsgs : SrDisconnect(r, ok, msg)
    \/ \E ok \in BOOLEAN, msg \in ErrMsgs : SrConnect(r, ok, msg)
    \/ \E ok \in BOOLEAN : RpGet(r, ok)
    \/ SetStreaming(r)
    \/ \E ok \in BOOLEAN, msg \in ErrMsgs : Query(r, ok, msg)
    \/ \E m \in Messages : Recv(r, m)
    \/ RecvEnd(r)
    \/ \E msg \in ErrMsgs : RecvFail(r, msg)

\* every awaited call of a turn returns or raises, and the client keeps reading
FairSpec == Spec /\ \A r \in Reqs : WF_vars(Turn(r))
====
